---- MODULE Spec2Model ----
(***************************************************************************)
(* Model of StackMetadataBackendOutputRetrievalStrategy.fetchBackendOutput *)
(* (packages/deployed-backend-client): resolve the stack name, fetch the   *)
(* template metadata, filter and validate it, fetch the stack description  *)
(* and join the stack outputs with the metadata entries.                   *)
(*                                                                         *)
(* Encoding of JavaScript values:                                          *)
(*   - an optional value (possibly undefined) is a sequence of length <= 1:*)
(*     None is undefined, Some(x) is the defined value x;                  *)
(*   - a string the code inspects with startsWith/endsWith is a sequence   *)
(*     of tokens (the concatenation of the tokens is the string);          *)
(*   - an object is the sequence of its [key, value] entries in insertion  *)
(*     order (property names are identifier-like, never array indices).    *)
(* One action is one await point of the async function together with the   *)
(* synchronous code that runs until the next await, return or throw.       *)
(***************************************************************************)
EXTENDS Naturals, Sequences, FiniteSets

VARIABLES
    pc,                    \* position of the call: "start", "getTemplateSummary", "describeStacks", "done"
    stackName,             \* const stackName (None until resolved)
    sent,                  \* commands passed to cfnClient.send, in order
    templateSummary,       \* response of GetTemplateSummaryCommand (None until received)
    backendOutputMetadata, \* result of backendOutputStackMetadataSchema.parse
    stackDescription,      \* Stacks[0] of the DescribeStacksCommand response (None until received)
    sendError,             \* the error a cfnClient.send rejected with (None if none did)
    caught,                \* the error bound by the catch clause of the metadata step
    outcome,               \* how the returned promise settled
    remote,                \* the deployed stack as CloudFormation holds it (interleaved calls)
    calls,                 \* the locals and the settled promise of each interleaved call
    forms,                 \* GenerateFormsCommand.handler: position, arguments, collaborator calls
    deploy                 \* PipelineDeployCommand.handler: position, arguments, collaborator calls

\* the variables of one fetchBackendOutput call followed on its own
callVars == <<pc, stackName, sent, templateSummary, caught, backendOutputMetadata,
              stackDescription, sendError, outcome>>

vars == <<pc, stackName, sent, templateSummary, caught, backendOutputMetadata,
          stackDescription, sendError, outcome, remote, calls, forms, deploy>>

----------------------------------------------------------------------------
(* Bounds of the model *)

\* longest Outputs list of a DescribeStacks response
MaxOutputs == 2
\* longest stackOutputs array of a metadata entry
MaxNames == 2

----------------------------------------------------------------------------
(* Generic helpers *)

None == <<>>
Some(x) == <<x>>
IsSome(o) == Len(o) = 1
Get(o) == o[1]

\* all sequences over S of length at most n
SeqsUpTo(S, n) == UNION {[1..k -> S] : k \in 0..n}

Range(s) == {s[i] : i \in 1..Len(s)}

\* String.prototype.startsWith / endsWith on token sequences
StartsWith(s, prefix) ==
    /\ Len(s) >= Len(prefix)
    /\ SubSeq(s, 1, Len(prefix)) = prefix

EndsWith(s, suffix) ==
    /\ Len(s) >= Len(suffix)
    /\ SubSeq(s, Len(s) - Len(suffix) + 1, Len(s)) = suffix

\* obj[k] of an object kept as a sequence of [key, value] entries
HasKey(obj, k) == \E i \in 1..Len(obj) : obj[i].key = k

ObjGet(obj, k) ==
    IF HasKey(obj, k)
    THEN Some(obj[CHOOSE i \in 1..Len(obj) : obj[i].key = k].value)
    ELSE None

\* { ...obj, [k]: v } and obj[k] = v: an existing key keeps its position
ObjSet(obj, k, v) ==
    IF HasKey(obj, k)
    THEN [i \in 1..Len(obj) |-> IF obj[i].key = k THEN [key |-> k, value |-> v] ELSE obj[i]]
    ELSE Append(obj, [key |-> k, value |-> v])

----------------------------------------------------------------------------
(* Errors.  class is the constructor (what instanceof tests), name and      *)
(* message are the Error fields, code is BackendOutputClientError.code.     *)

Err(class, name, code, message) ==
    [class |-> class, name |-> name, code |-> code, message |-> message]

BackendOutputClientError(code, message) ==
    Err("BackendOutputClientError", "BackendOutputClientError", code, message)

\* JSON.parse of a text that is not JSON
SyntaxError == Err("SyntaxError", "SyntaxError", "", <<"Unexpected token in JSON">>)

\* Object.entries(null)
TypeError == Err("TypeError", "TypeError", "", <<"Cannot convert undefined or null to object">>)

----------------------------------------------------------------------------
(* Inputs: what the collaborators may answer *)

StackNames == {"amplify-app-main"}

\* messages of errors raised by cfnClient.send
ProviderMessages ==
    {<<"Stack with id", " amplify-app-main ", "does not exist">>,
     <<"Stack with id", " amplify-app-main ", "is in ROLLBACK_COMPLETE state">>,
     <<"Resource", " amplify-app-main ", "does not exist">>,
     <<"The security token included in the request is expired">>}

ProviderErrorNames ==
    {"ValidationError", "ExpiredToken", "InvalidClientTokenId", "AccessDenied"}

\* errors cfnClient.send may reject with: service exceptions and other errors
ProviderErrors ==
    {Err(c, n, "", m) : c \in {"CloudFormationServiceException", "Error"},
                        n \in ProviderErrorNames, m \in ProviderMessages}

\* error stackNameResolver.resolveMainStackName may reject with
NameResolverErrors ==
    {Err("Error", "Error", "", <<"Unable to resolve the main stack name">>)}

\* output names, output values, group names
OutputNames == {"ApiUrl", "ApiId"}
OutputValues == {"", "https://x", "abc123"}
GroupKeys == {"auth", "data"}

\* a JSON value of a metadata entry field
JsonString(s) == [type |-> "string", str |-> s, items |-> <<>>]
JsonNumber == [type |-> "number", str |-> "", items |-> <<>>]
JsonArray(a) == [type |-> "array", str |-> "", items |-> a]

\* a value of the metadata object: an object with optional fields, or a string
MetadataObjectValue(v, s) == [isObject |-> TRUE, version |-> v, stackOutputs |-> s]
MetadataStringValue == [isObject |-> FALSE, version |-> None, stackOutputs |-> None]

\* metadata values that are not backend output entries (e.g. "AWS::CDK::Metadata")
UnrelatedValues ==
    {MetadataStringValue,
     MetadataObjectValue(None, None),
     MetadataObjectValue(Some(JsonString("1")), None),
     MetadataObjectValue(None, Some(JsonArray(<<"ApiUrl">>)))}

\* metadata values carrying both fields, well-formed or not
EntryLikeValues ==
    {MetadataObjectValue(Some(JsonString("1")), Some(JsonArray(a))) :
        a \in SeqsUpTo(OutputNames, MaxNames)}
    \cup {MetadataObjectValue(Some(JsonString("2")), Some(JsonArray(<<"ApiId", "ApiUrl">>))),
          MetadataObjectValue(Some(JsonNumber), Some(JsonArray(<<"ApiUrl">>))),
          MetadataObjectValue(Some(JsonString("1")), Some(JsonString("ApiUrl")))}

MetadataValues == UnrelatedValues \cup EntryLikeValues

\* parsed metadata objects: entries in document order, keys distinct
MetadataObjects ==
    {m \in SeqsUpTo([key : GroupKeys, value : MetadataValues], Cardinality(GroupKeys)) :
        \A i, j \in 1..Len(m) : m[i].key = m[j].key => i = j}

\* TemplateSummary.Metadata: undefined, or a text (kept as what JSON.parse makes of it)
MetadataTexts ==
    {[json |-> "invalid", entries |-> <<>>], [json |-> "null", entries |-> <<>>]}
    \cup {[json |-> "object", entries |-> m] : m \in MetadataObjects}

TemplateSummaries == {[Metadata |-> md] : md \in {None} \cup {Some(t) : t \in MetadataTexts}}

\* Stack.StackStatus values, as tokens
StackStatuses ==
    {<<"CREATE", "_", "COMPLETE">>, <<"UPDATE", "_", "IN", "_", "PROGRESS">>}

\* Stack.Outputs entries: OutputKey and OutputValue are optional
RawOutputs ==
    [OutputKey : {Some(k) : k \in OutputNames},
     OutputValue : {None} \cup {Some(v) : v \in OutputValues}]
    \cup {[OutputKey |-> None, OutputValue |-> Some("https://x")]}

DeploymentTypeTag == "amplify:deployment-type"

StackTags ==
    {None,
     Some(<<[Key |-> Some("user:team"), Value |-> Some("x")],
            [Key |-> Some(DeploymentTypeTag), Value |-> Some("branch")]>>)}

\* Stacks[0] of a DescribeStacks response (a request by name answers with one
\* stack or fails).  Tags are read for an in-progress stack only, so the other
\* stacks are taken without tags.
Stacks ==
    {stack \in [StackStatus : {None} \cup {Some(s) : s \in StackStatuses},
                Outputs : {None} \cup {Some(o) : o \in SeqsUpTo(RawOutputs, MaxOutputs)},
                Tags : StackTags] :
        IsSome(stack.Tags) => stack.StackStatus = Some(<<"UPDATE", "_", "IN", "_", "PROGRESS">>)}

----------------------------------------------------------------------------
(* The pure parts of fetchBackendOutput *)

\* typeof templateSummary.Metadata !== 'string'
MetadataIsNotAString(summary) == ~IsSome(summary.Metadata)

\* variant: an error no rule matches is wrapped instead of rethrown
ClassifyMetadataError_WrapsUnknown(error, name) ==
    IF /\ error.class = "CloudFormationServiceException"
       /\ StartsWith(error.message, <<"Stack with id">>)
       /\ EndsWith(error.message, <<"does not exist">>)
    THEN BackendOutputClientError("NO_STACK_FOUND",
                                  <<"Stack with id", name, "does not exist">>)
    ELSE IF /\ error.class = "CloudFormationServiceException"
            /\ error.name \in {"ExpiredToken", "InvalidClientTokenId"}
    THEN BackendOutputClientError("CREDENTIALS_ERROR", error.message)
    ELSE IF /\ error.class = "CloudFormationServiceException"
            /\ error.name = "AccessDenied"
    THEN BackendOutputClientError("ACCESS_DENIED", error.message)
    ELSE BackendOutputClientError("METADATA_RETRIEVAL_ERROR", error.message)

\* the catch block of the metadata step: three rules in order, then rethrow
ClassifyMetadataError(error, name) ==
    IF /\ error.class = "CloudFormationServiceException"
       /\ StartsWith(error.message, <<"Stack with id">>)
       /\ EndsWith(error.message, <<"does not exist">>)
    THEN BackendOutputClientError("NO_STACK_FOUND",
                                  <<"Stack with id", name, "does not exist">>)
    ELSE IF /\ error.class = "CloudFormationServiceException"
            /\ error.name \in {"ExpiredToken", "InvalidClientTokenId"}
    THEN BackendOutputClientError("CREDENTIALS_ERROR", error.message)
    ELSE IF /\ error.class = "CloudFormationServiceException"
            /\ error.name = "AccessDenied"
    THEN BackendOutputClientError("ACCESS_DENIED", error.message)
    ELSE error

\* variant: one of the two fields is enough
isBackendOutputEntryStackMetadata_EitherField(obj) ==
    /\ obj.isObject
    /\ (IsSome(obj.version) \/ IsSome(obj.stackOutputs))

\* Type predicate: is the metadata value like a backend output entry
isBackendOutputEntryStackMetadata(obj) ==
    /\ obj.isObject
    /\ IsSome(obj.version)
    /\ IsSome(obj.stackOutputs)

\* Object.fromEntries(Object.entries(metadata).filter(...))
filterBackendOutputEntryStackMetadata(metadata) ==
    SelectSeq(metadata, LAMBDA e : isBackendOutputEntryStackMetadata(e.value))

\* strict validation of one filtered entry: a string version and a non-empty
\* array of unique strings as stackOutputs
EntryIsWellFormed(value) ==
    /\ IsSome(value.version) /\ Get(value.version).type = "string"
    /\ IsSome(value.stackOutputs) /\ Get(value.stackOutputs).type = "array"
    /\ LET names == Get(value.stackOutputs).items
       IN  /\ Len(names) > 0
           /\ \A i, j \in 1..Len(names) : names[i] = names[j] => i = j

\* backendOutputStackMetadataSchema.parse throws unless every entry is well formed
SchemaAccepts(filtered) ==
    \A i \in 1..Len(filtered) : EntryIsWellFormed(filtered[i].value)

SchemaValidationError ==
    Err("SchemaValidationError", "SchemaValidationError", "", <<"Invalid metadata entry">>)

\* the value backendOutputStackMetadataSchema.parse returns
SchemaParse(filtered) ==
    [i \in 1..Len(filtered) |->
        [key |-> filtered[i].key,
         value |-> [version |-> Get(filtered[i].value.version).str,
                    stackOutputs |-> Get(filtered[i].value.stackOutputs).items]]]

\* StackStatus?.endsWith('_IN_PROGRESS')
InProgressMarker == <<"_", "IN", "_", "PROGRESS">>

IsInProgress(stack) ==
    /\ IsSome(stack.StackStatus)
    /\ EndsWith(Get(stack.StackStatus), InProgressMarker)

\* Tags?.find((tag) => tag.Key === 'amplify:deployment-type')?.Value ?? 'sandbox'
DeploymentType(stack) ==
    IF ~IsSome(stack.Tags) THEN "sandbox"
    ELSE LET tags == Get(stack.Tags)
             hits == {i \in 1..Len(tags) : tags[i].Key = Some(DeploymentTypeTag)}
         IN  IF hits = {} THEN "sandbox"
             ELSE LET first == CHOOSE i \in hits : \A j \in hits : i <= j
                  IN  IF IsSome(tags[first].Value) THEN Get(tags[first].Value)
                      ELSE "sandbox"

DeploymentInProgressError(stack) ==
    BackendOutputClientError("DEPLOYMENT_IN_PROGRESS",
        <<"This ", DeploymentType(stack),
          " deployment is in progress. Re-run this command once the deployment completes.">>)

NoOutputsFoundError ==
    BackendOutputClientError("NO_OUTPUTS_FOUND", <<"Stack outputs are undefined">>)

MetadataRetrievalError ==
    BackendOutputClientError("METADATA_RETRIEVAL_ERROR",
                             <<"Stack template metadata is not a string">>)

\* !!x for an optional string: defined and not empty
Truthy(o) == IsSome(o) /\ Get(o) # ""

\* (output) => !!output.OutputValue && !!output.OutputKey
OutputIsUsable(output) == Truthy(output.OutputValue) /\ Truthy(output.OutputKey)

\* reduce of the usable outputs into a Record<name, value>
RECURSIVE ReduceOutputs(_, _)
ReduceOutputs(accumulator, outputs) ==
    IF outputs = <<>> THEN accumulator
    ELSE ReduceOutputs(ObjSet(accumulator, Get(Head(outputs).OutputKey),
                              Get(Head(outputs).OutputValue)),
                       Tail(outputs))

\* variant: the first usable output of a key wins
StackOutputRecord_FirstWins(outputs) ==
    LET usable == SelectSeq(outputs, OutputIsUsable)
        firsts == {i \in 1..Len(usable) :
                      \A j \in 1..(i - 1) : usable[j].OutputKey # usable[i].OutputKey}
    IN  ReduceOutputs(<<>>, SelectSeq(usable, LAMBDA o : \E i \in firsts : usable[i] = o))

StackOutputRecord(outputs) ==
    ReduceOutputs(<<>>, SelectSeq(outputs, OutputIsUsable))

\* stackOutputRecord[outputName] === undefined || stackOutputRecord[outputName] === ''
OutputIsMissing(record, outputName) ==
    \/ ObjGet(record, outputName) = None
    \/ ObjGet(record, outputName) = Some("")

\* entry.stackOutputs.reduce(...): the payload of one group
RECURSIVE OutputData(_, _, _)
OutputData(accumulator, names, record) ==
    IF names = <<>> THEN accumulator
    ELSE IF OutputIsMissing(record, Head(names))
         THEN OutputData(accumulator, Tail(names), record)
         ELSE OutputData(ObjSet(accumulator, Head(names), Get(ObjGet(record, Head(names)))),
                         Tail(names), record)

\* Object.entries(backendOutputMetadata).forEach(...): result[outputKeyName] = {version, payload}
RECURSIVE ForEachEntry(_, _, _)
ForEachEntry(result, metadata, record) ==
    IF metadata = <<>> THEN result
    ELSE ForEachEntry(
            ObjSet(result, Head(metadata).key,
                   [version |-> Head(metadata).value.version,
                    payload |-> OutputData(<<>>, Head(metadata).value.stackOutputs, record)]),
            Tail(metadata), record)

\* variant: a group whose payload is empty is left out
BuildResult_DropsEmptyGroups(metadata, record) ==
    SelectSeq(ForEachEntry(<<>>, metadata, record), LAMBDA g : g.value.payload # <<>>)

\* const result: BackendOutput = {}; ...forEach...; return result
BuildResult(metadata, record) == ForEachEntry(<<>>, metadata, record)

----------------------------------------------------------------------------
(* The call as a state machine *)

Pending == [state |-> "pending", value |-> <<>>, error |-> None]
Fulfilled(result) == [state |-> "fulfilled", value |-> result, error |-> None]
Rejected(error) == [state |-> "rejected", value |-> <<>>, error |-> Some(error)]

Command(name, stack) == [command |-> name, StackName |-> stack]

\* values of the variables a specification does not follow
NoRemote == [summary |-> [Metadata |-> None],
             stack |-> [StackStatus |-> None, Outputs |-> None, Tags |-> None]]
NoHandler == [pc |-> "unused"]

Init ==
    /\ pc = "start"
    /\ stackName = None
    /\ sent = <<>>
    /\ templateSummary = None
    /\ caught = None
    /\ backendOutputMetadata = <<>>
    /\ stackDescription = None
    /\ sendError = None
    /\ outcome = Pending
    /\ remote = NoRemote /\ calls = <<>> /\ forms = NoHandler /\ deploy = NoHandler

\* resolveMainStackName resolves; GetTemplateSummaryCommand is sent
ResolveMainStackNameReturns ==
    /\ pc = "start"
    /\ \E name \in StackNames :
        /\ stackName' = Some(name)
        /\ sent' = Append(sent, Command("GetTemplateSummaryCommand", name))
    /\ pc' = "getTemplateSummary"
    /\ UNCHANGED <<templateSummary, caught, backendOutputMetadata, stackDescription,
                   sendError, outcome>>
    /\ UNCHANGED <<remote, calls, forms, deploy>>

\* resolveMainStackName rejects: the rejection is not caught
ResolveMainStackNameFails ==
    /\ pc = "start"
    /\ \E error \in NameResolverErrors : outcome' = Rejected(error)
    /\ pc' = "done"
    /\ UNCHANGED <<stackName, sent, templateSummary, caught, backendOutputMetadata,
                   stackDescription, sendError>>
    /\ UNCHANGED <<remote, calls, forms, deploy>>

\* what the metadata step does with a received template summary, up to the
\* next await: \result is the error thrown, or None when DescribeStacks is sent
ThrownInTry(summary) ==
    IF MetadataIsNotAString(summary) THEN Some(MetadataRetrievalError)
    ELSE IF Get(summary.Metadata).json = "invalid" THEN Some(SyntaxError)
    ELSE None

\* cfnClient.send(GetTemplateSummaryCommand) rejects: the catch block decides
GetTemplateSummaryFails ==
    /\ pc = "getTemplateSummary"
    /\ \E error \in ProviderErrors :
        /\ sendError' = Some(error)
        /\ caught' = Some(error)
        /\ outcome' = Rejected(ClassifyMetadataError(error, Get(stackName)))
    /\ pc' = "done"
    /\ UNCHANGED <<stackName, sent, templateSummary, backendOutputMetadata,
                   stackDescription>>
    /\ UNCHANGED <<remote, calls, forms, deploy>>

\* the template summary arrives but the try block throws
GetTemplateSummaryReturnsUnusable ==
    /\ pc = "getTemplateSummary"
    /\ \E summary \in TemplateSummaries :
        /\ ThrownInTry(summary) # None
        /\ templateSummary' = Some(summary)
        /\ caught' = ThrownInTry(summary)
        /\ outcome' = Rejected(ClassifyMetadataError(Get(ThrownInTry(summary)),
                                                     Get(stackName)))
    /\ pc' = "done"
    /\ UNCHANGED <<stackName, sent, backendOutputMetadata, stackDescription, sendError>>
    /\ UNCHANGED <<remote, calls, forms, deploy>>

\* the metadata parses to null: Object.entries throws in the filter
GetTemplateSummaryReturnsNull ==
    /\ pc = "getTemplateSummary"
    /\ \E summary \in TemplateSummaries :
        /\ ThrownInTry(summary) = None
        /\ Get(summary.Metadata).json = "null"
        /\ templateSummary' = Some(summary)
    /\ outcome' = Rejected(TypeError)
    /\ pc' = "done"
    /\ UNCHANGED <<stackName, sent, caught, backendOutputMetadata, stackDescription,
                   sendError>>
    /\ UNCHANGED <<remote, calls, forms, deploy>>

\* variant: DescribeStacksCommand is sent although the validation threw
GetTemplateSummaryReturnsMalformed_StillSends ==
    /\ pc = "getTemplateSummary"
    /\ \E summary \in TemplateSummaries :
        /\ ThrownInTry(summary) = None
        /\ Get(summary.Metadata).json = "object"
        /\ ~SchemaAccepts(filterBackendOutputEntryStackMetadata(
                              Get(summary.Metadata).entries))
        /\ templateSummary' = Some(summary)
    /\ sent' = Append(sent, Command("DescribeStacksCommand", Get(stackName)))
    /\ outcome' = Rejected(SchemaValidationError)
    /\ pc' = "done"
    /\ UNCHANGED <<stackName, caught, backendOutputMetadata, stackDescription,
                   sendError>>
    /\ UNCHANGED <<remote, calls, forms, deploy>>

\* the metadata parses to an object that strict validation rejects
GetTemplateSummaryReturnsMalformed ==
    /\ pc = "getTemplateSummary"
    /\ \E summary \in TemplateSummaries :
        /\ ThrownInTry(summary) = None
        /\ Get(summary.Metadata).json = "object"
        /\ ~SchemaAccepts(filterBackendOutputEntryStackMetadata(
                              Get(summary.Metadata).entries))
        /\ templateSummary' = Some(summary)
    /\ outcome' = Rejected(SchemaValidationError)
    /\ pc' = "done"
    /\ UNCHANGED <<stackName, sent, caught, backendOutputMetadata, stackDescription,
                   sendError>>
    /\ UNCHANGED <<remote, calls, forms, deploy>>

\* the metadata is filtered and validated; DescribeStacksCommand is sent
GetTemplateSummaryReturns ==
    /\ pc = "getTemplateSummary"
    /\ \E summary \in TemplateSummaries :
        /\ ThrownInTry(summary) = None
        /\ Get(summary.Metadata).json = "object"
        /\ LET filtered == filterBackendOutputEntryStackMetadata(
                               Get(summary.Metadata).entries)
           IN  /\ SchemaAccepts(filtered)
               /\ backendOutputMetadata' = SchemaParse(filtered)
        /\ templateSummary' = Some(summary)
    /\ sent' = Append(sent, Command("DescribeStacksCommand", Get(stackName)))
    /\ pc' = "describeStacks"
    /\ UNCHANGED <<stackName, caught, stackDescription, sendError, outcome>>
    /\ UNCHANGED <<remote, calls, forms, deploy>>

\* cfnClient.send(DescribeStacksCommand) rejects: nothing catches the rejection
DescribeStacksFails ==
    /\ pc = "describeStacks"
    /\ \E error \in ProviderErrors :
        /\ sendError' = Some(error)
        /\ outcome' = Rejected(error)
    /\ pc' = "done"
    /\ UNCHANGED <<stackName, sent, templateSummary, caught, backendOutputMetadata,
                   stackDescription>>
    /\ UNCHANGED <<remote, calls, forms, deploy>>

\* variant: undefined outputs are read as no outputs and the groups are returned
SettleOutputs_PartialResult(stack, metadata) ==
    IF IsInProgress(stack) THEN Rejected(DeploymentInProgressError(stack))
    ELSE IF stack.Outputs = None THEN Fulfilled(BuildResult(metadata, <<>>))
    ELSE Fulfilled(BuildResult(metadata, StackOutputRecord(Get(stack.Outputs))))

\* variant: an empty outputs list is taken for missing outputs
SettleOutputs_EmptyIsMissing(stack, metadata) ==
    IF IsInProgress(stack) THEN Rejected(DeploymentInProgressError(stack))
    ELSE IF stack.Outputs = None \/ stack.Outputs = Some(<<>>)
    THEN Rejected(NoOutputsFoundError)
    ELSE Fulfilled(BuildResult(metadata, StackOutputRecord(Get(stack.Outputs))))

\* variant: the outputs check is made before the status check
SettleOutputs_OutputsFirst(stack, metadata) ==
    IF stack.Outputs = None THEN Rejected(NoOutputsFoundError)
    ELSE IF IsInProgress(stack) THEN Rejected(DeploymentInProgressError(stack))
    ELSE Fulfilled(BuildResult(metadata, StackOutputRecord(Get(stack.Outputs))))

\* what the outputs step settles with for a received stack
SettleOutputs(stack, metadata) ==
    IF IsInProgress(stack) THEN Rejected(DeploymentInProgressError(stack))
    ELSE IF stack.Outputs = None THEN Rejected(NoOutputsFoundError)
    ELSE Fulfilled(BuildResult(metadata, StackOutputRecord(Get(stack.Outputs))))

\* the stack description arrives: status check, outputs check, assembly
DescribeStacksReturns ==
    /\ pc = "describeStacks"
    /\ \E stack \in Stacks :
        /\ stackDescription' = Some(stack)
        /\ outcome' = SettleOutputs(stack, backendOutputMetadata)
    /\ pc' = "done"
    /\ UNCHANGED <<stackName, sent, templateSummary, caught, backendOutputMetadata,
                   sendError>>
    /\ UNCHANGED <<remote, calls, forms, deploy>>

Next ==
    \/ ResolveMainStackNameReturns
    \/ ResolveMainStackNameFails
    \/ GetTemplateSummaryFails
    \/ GetTemplateSummaryReturnsUnusable
    \/ GetTemplateSummaryReturnsNull
    \/ GetTemplateSummaryReturnsMalformed
    \/ GetTemplateSummaryReturns
    \/ DescribeStacksFails
    \/ DescribeStacksReturns

Spec == Init /\ [][Next]_vars


----------------------------------------------------------------------------
(* Vocabulary of the properties *)

Done == pc = "done"
Returned == outcome.state = "fulfilled"
Failed == outcome.state = "rejected"
FailedWith(error) == Failed /\ outcome.error = Some(error)

\* the call failed with a BackendOutputClientError of the given code
FailedWithCode(code) ==
    /\ Failed
    /\ Get(outcome.error).class = "BackendOutputClientError"
    /\ Get(outcome.error).code = code

\* the metadata fetch answered with a text that parses to an object
MetadataObjectReceived ==
    /\ IsSome(templateSummary)
    /\ IsSome(Get(templateSummary).Metadata)
    /\ Get(Get(templateSummary).Metadata).json = "object"

\* the entries of the parsed metadata object, in document order
RawEntries == Get(Get(templateSummary).Metadata).entries

StackReceived == IsSome(stackDescription)
TheStack == Get(stackDescription)

\* the received status ends with '_IN_PROGRESS'
StatusEndsInProgress ==
    /\ IsSome(TheStack.StackStatus)
    /\ LET status == Get(TheStack.StackStatus)
       IN  /\ Len(status) >= 4
           /\ status[Len(status) - 3] = "_" /\ status[Len(status) - 2] = "IN"
           /\ status[Len(status) - 1] = "_" /\ status[Len(status)] = "PROGRESS"

----------------------------------------------------------------------------
\* C1: whenever the status of the received stack ends with '_IN_PROGRESS', the
\* call fails with DEPLOYMENT_IN_PROGRESS, whether the outputs are a list, an
\* empty list or undefined; such a stack is never reported as NO_OUTPUTS_FOUND.
C1_InProgressTakesPrecedence ==
    (Done /\ StackReceived /\ StatusEndsInProgress)
        => FailedWithCode("DEPLOYMENT_IN_PROGRESS")

\* an in-progress stack whose outputs are undefined was reported as in progress
C1_Witness ==
    /\ Done /\ StackReceived /\ StatusEndsInProgress
    /\ TheStack.Outputs = None
    /\ FailedWithCode("DEPLOYMENT_IN_PROGRESS")


----------------------------------------------------------------------------
\* the received metadata passed the filter and the strict validation
MetadataValidated ==
    /\ MetadataObjectReceived
    /\ \A i \in 1..Len(RawEntries) :
          isBackendOutputEntryStackMetadata(RawEntries[i].value)
              => EntryIsWellFormed(RawEntries[i].value)

\* the outputs fetch answered with a stack that is not in progress and has outputs
OutputsUsable ==
    /\ StackReceived
    /\ ~StatusEndsInProgress
    /\ IsSome(TheStack.Outputs)

\* C2: the call returns a BackendOutput exactly when the metadata fetch answered
\* with metadata that passed validation and the outputs fetch answered with a
\* stack that is not in progress and has defined outputs; every other finished
\* call failed, a failed or unfinished call carries no BackendOutput.
C2_AllOrNothing ==
    /\ Returned => (Done /\ sendError = None /\ MetadataValidated /\ OutputsUsable)
    /\ Done => (Returned \/ Failed)
    /\ (Done /\ ~(sendError = None /\ MetadataValidated /\ OutputsUsable)) => Failed
    /\ ~Returned => outcome.value = <<>>

\* a call that returned groups
C2_Witness ==
    /\ Done /\ Returned /\ Len(outcome.value) = 2
    /\ MetadataValidated /\ OutputsUsable

----------------------------------------------------------------------------
\* the raw metadata entry a group of the result comes from
RawEntryOf(key) ==
    RawEntries[CHOOSE i \in 1..Len(RawEntries) : RawEntries[i].key = key]

DeclaredNames(key) == Get(RawEntryOf(key).value.stackOutputs).items

\* positions of the raw outputs that give the name a non-empty value
Resolving(name) ==
    LET outputs == Get(TheStack.Outputs)
    IN  {j \in 1..Len(outputs) :
            /\ outputs[j].OutputKey = Some(name)
            /\ IsSome(outputs[j].OutputValue)
            /\ Get(outputs[j].OutputValue) # ""}

\* the raw value of the name: that of the last raw output giving it one
RawValue(name) ==
    LET outputs == Get(TheStack.Outputs)
        last == CHOOSE j \in Resolving(name) : \A k \in Resolving(name) : k <= j
    IN  Get(outputs[last].OutputValue)

\* the declared names that have a raw value, in declared order
ResolvableNames(key) ==
    SelectSeq(DeclaredNames(key), LAMBDA n : Resolving(n) # {})

\* C3: in a returned BackendOutput the payload of every group is the declared
\* stackOutputs of its metadata entry, in declared order, restricted to the names
\* with a non-empty raw value, each mapped to that value.
C3_PayloadIsDeclaredAndResolved ==
    Returned =>
        \A g \in 1..Len(outcome.value) :
            LET key == outcome.value[g].key
                payload == outcome.value[g].value.payload
            IN  /\ Len(payload) = Len(ResolvableNames(key))
                /\ \A i \in 1..Len(payload) :
                    /\ payload[i].key = ResolvableNames(key)[i]
                    /\ payload[i].value = RawValue(payload[i].key)
                    /\ payload[i].value # ""
                    /\ payload[i].key \in Range(DeclaredNames(key))

\* a group declaring two names of which the first was dropped: one raw output has
\* no key, one has an empty value and the last one gives the second name its value
C3_Witness ==
    /\ Returned
    /\ \E g \in 1..Len(outcome.value) :
        /\ Len(DeclaredNames(outcome.value[g].key)) = 2
        /\ Len(outcome.value[g].value.payload) = 1
        /\ outcome.value[g].value.payload[1].key = DeclaredNames(outcome.value[g].key)[2]
    /\ \E j \in 1..Len(Get(TheStack.Outputs)) :
          Get(TheStack.Outputs)[j].OutputValue = Some("")

----------------------------------------------------------------------------
\* the raw metadata entries that carry both fields, in document order
EntryLikeEntries ==
    SelectSeq(RawEntries,
              LAMBDA e : e.value.isObject /\ IsSome(e.value.version)
                         /\ IsSome(e.value.stackOutputs))

\* C4: a returned BackendOutput has exactly one group per validated metadata
\* entry, under the entry's key and with the entry's version; a validated call
\* whose stack is not in progress and has outputs returns whatever the outputs
\* are, and a group none of whose names resolves is present with an empty payload.
C4_OneGroupPerEntry ==
    /\ Returned =>
        /\ Len(outcome.value) = Len(EntryLikeEntries)
        /\ \A g \in 1..Len(outcome.value) :
            /\ outcome.value[g].key = EntryLikeEntries[g].key
            /\ outcome.value[g].value.version = Get(EntryLikeEntries[g].value.version).str
            /\ (ResolvableNames(outcome.value[g].key) = <<>>
                    => outcome.value[g].value.payload = <<>>)
    /\ (Done /\ sendError = None /\ MetadataValidated /\ OutputsUsable) => Returned

\* two groups, the first with no resolvable name and an empty payload
C4_Witness ==
    /\ Returned /\ Len(outcome.value) = 2
    /\ outcome.value[1].value.payload = <<>>
    /\ outcome.value[2].value.payload # <<>>
    /\ outcome.value[1].value.version # outcome.value[2].value.version


----------------------------------------------------------------------------
(* What the provider reported, read off the rejection of cfnClient.send *)

ReportsNoStack(error) ==
    /\ error.class = "CloudFormationServiceException"
    /\ Len(error.message) >= 2
    /\ error.message[1] = "Stack with id"
    /\ error.message[Len(error.message)] = "does not exist"

ReportsBadCredentials(error) ==
    /\ error.class = "CloudFormationServiceException"
    /\ error.name \in {"ExpiredToken", "InvalidClientTokenId"}

ReportsAccessDenied(error) ==
    /\ error.class = "CloudFormationServiceException"
    /\ error.name = "AccessDenied"

\* the taxonomy kind of a provider report; "" when no rule applies
ReportedKind(error) ==
    IF ReportsNoStack(error) THEN "NO_STACK_FOUND"
    ELSE IF ReportsBadCredentials(error) THEN "CREDENTIALS_ERROR"
    ELSE IF ReportsAccessDenied(error) THEN "ACCESS_DENIED"
    ELSE ""

\* C5: whenever either remote fetch rejects with a report of a missing stack, of
\* expired or invalid credentials or of denied access, the call fails with the
\* corresponding kind and the provider error does not reach the caller.
C5_BothFetchesClassified ==
    (Done /\ IsSome(sendError) /\ ReportedKind(Get(sendError)) # "")
        => /\ FailedWithCode(ReportedKind(Get(sendError)))
           /\ outcome.error # sendError

----------------------------------------------------------------------------
\* C6: when the metadata fetch answers with no metadata text, or with a text
\* that does not parse, the call fails with METADATA_RETRIEVAL_ERROR.
C6_UnusableMetadataIsRetrievalError ==
    (Done /\ IsSome(templateSummary)
          /\ (\/ ~IsSome(Get(templateSummary).Metadata)
              \/ Get(Get(templateSummary).Metadata).json = "invalid"))
        => FailedWithCode("METADATA_RETRIEVAL_ERROR")

----------------------------------------------------------------------------
\* C7: undefined outputs of a stack whose status does not end with
\* '_IN_PROGRESS' fail the call with NO_OUTPUTS_FOUND; a defined, empty outputs
\* list does not: the call returns every group with an empty payload.
C7_NoOutputsOnlyWhenUndefined ==
    /\ (Done /\ StackReceived /\ ~StatusEndsInProgress /\ TheStack.Outputs = None)
          => FailedWithCode("NO_OUTPUTS_FOUND")
    /\ (Done /\ StackReceived /\ ~StatusEndsInProgress /\ TheStack.Outputs = Some(<<>>))
          => /\ Returned
             /\ Len(outcome.value) = Len(backendOutputMetadata)
             /\ \A g \in 1..Len(outcome.value) : outcome.value[g].value.payload = <<>>

\* undefined outputs of a finished deployment were reported as NO_OUTPUTS_FOUND
C7_Witness ==
    /\ Done /\ StackReceived /\ TheStack.Outputs = None
    /\ TheStack.StackStatus = Some(<<"CREATE", "_", "COMPLETE">>)
    /\ FailedWithCode("NO_OUTPUTS_FOUND")

\* an empty outputs list gave two groups with empty payloads
C7_WitnessEmptyList ==
    /\ Done /\ StackReceived /\ TheStack.Outputs = Some(<<>>)
    /\ Returned /\ Len(outcome.value) = 2

----------------------------------------------------------------------------
GetTemplateSummarySent == Command("GetTemplateSummaryCommand", Get(stackName))
DescribeStacksSent == Command("DescribeStacksCommand", Get(stackName))

\* C8: each command is sent at most once, GetTemplateSummary before
\* DescribeStacks; DescribeStacks is sent only after the metadata was fetched,
\* parsed and validated; a failure ends the call at once.
C8_SequentialFailFast ==
    /\ IF stackName = None THEN sent = <<>>
       ELSE sent \in {<<GetTemplateSummarySent>>,
                      <<GetTemplateSummarySent, DescribeStacksSent>>}
    /\ Len(sent) = 2 =>
          (MetadataValidated /\ caught = None /\ pc \in {"describeStacks", "done"})
    /\ (IsSome(templateSummary) /\ ~MetadataValidated) => (Failed /\ Len(sent) = 1)
    /\ (IsSome(sendError) \/ IsSome(caught)) => Failed
    /\ (Failed \/ Returned) = Done

\* the validation failed and nothing was sent after GetTemplateSummary
C8_Witness ==
    /\ Done /\ MetadataObjectReceived /\ ~MetadataValidated
    /\ FailedWith(SchemaValidationError)
    /\ sent = <<GetTemplateSummarySent>>


----------------------------------------------------------------------------
HasVersion(value) == value.isObject /\ IsSome(value.version)
HasStackOutputs(value) == value.isObject /\ IsSome(value.stackOutputs)

\* the keys of the entries strict validation was applied to
ValidatedKeys == {backendOutputMetadata[i].key : i \in 1..Len(backendOutputMetadata)}

\* C9 as stated: the pre-filter removes exactly the entries that have neither a
\* version nor a stackOutputs field; any other entry is validated, so that the
\* call fails with the validation error exactly when one of them is malformed.
C9_FilterRemovesEntriesLackingBoth ==
    MetadataObjectReceived =>
        LET kept == {i \in 1..Len(RawEntries) :
                        HasVersion(RawEntries[i].value) \/ HasStackOutputs(RawEntries[i].value)}
        IN  /\ FailedWith(SchemaValidationError)
                = (\E i \in kept : ~EntryIsWellFormed(RawEntries[i].value))
            /\ ~FailedWith(SchemaValidationError)
                => ValidatedKeys = {RawEntries[i].key : i \in kept}

\* C9 as amended: the pre-filter removes exactly the entries that are not an
\* object or lack at least one of the two fields; the entries with both fields
\* are validated and the call fails with the validation error exactly when one
\* of them is malformed; an entry with neither field, or with only one of them,
\* is ignored without a validation error.
C9_FilterKeepsEntriesWithBothFields ==
    MetadataObjectReceived =>
        LET kept == {i \in 1..Len(RawEntries) :
                        HasVersion(RawEntries[i].value) /\ HasStackOutputs(RawEntries[i].value)}
        IN  /\ FailedWith(SchemaValidationError)
                = (\E i \in kept : ~EntryIsWellFormed(RawEntries[i].value))
            /\ ~FailedWith(SchemaValidationError)
                => ValidatedKeys = {RawEntries[i].key : i \in kept}

\* metadata with an entry carrying only a version and a well-formed entry passed
\* the validation: only the well-formed entry was kept
C9_Witness ==
    /\ pc = "describeStacks" /\ MetadataObjectReceived
    /\ Len(RawEntries) = 2 /\ Len(backendOutputMetadata) = 1
    /\ \E i \in 1..2 :
          /\ HasVersion(RawEntries[i].value)
          /\ ~HasStackOutputs(RawEntries[i].value)

----------------------------------------------------------------------------
\* C10: an error of the metadata step that none of the three rules matches
\* reaches the caller as the same error; a matched error is reported as one
\* kind, the first of stack-not-found, credentials, access-denied that matches.
C10_UnclassifiedRethrownClassifiedOnce ==
    IsSome(caught) =>
        LET error == Get(caught)
        IN  /\ ReportedKind(error) = "" => FailedWith(error)
            /\ ReportedKind(error) # "" =>
                  /\ FailedWithCode(ReportedKind(error))
                  /\ Get(outcome.error).message =
                        IF ReportsNoStack(error)
                        THEN <<"Stack with id", Get(stackName), "does not exist">>
                        ELSE error.message

\* a service exception no rule matches reached the caller unchanged
C10_Witness ==
    /\ Done /\ IsSome(caught)
    /\ Get(caught).class = "CloudFormationServiceException"
    /\ Get(caught).name = "ValidationError"
    /\ ReportedKind(Get(caught)) = ""
    /\ FailedWith(Get(caught))

\* an access-denied exception whose message reports a missing stack was
\* reported as NO_STACK_FOUND
C10_WitnessPriority ==
    /\ Done /\ IsSome(caught)
    /\ ReportsNoStack(Get(caught)) /\ ReportsAccessDenied(Get(caught))
    /\ FailedWithCode("NO_STACK_FOUND")


----------------------------------------------------------------------------
(* Interleaved calls.  Every invocation of fetchBackendOutput has its own    *)
(* locals (the strategy has only the readonly fields cfnClient and           *)
(* stackNameResolver); the calls share the deployed stack, which a           *)
(* deployment may change between any two fetches.                            *)

\* number of calls in flight
NumCalls == 2

Calls == 1..NumCalls

\* the variables of Spec, not followed here
CallVarsUnused ==
    /\ pc = "unused" /\ stackName = None /\ sent = <<>> /\ templateSummary = None
    /\ caught = None /\ backendOutputMetadata = <<>> /\ stackDescription = None
    /\ sendError = None /\ outcome = Pending

\* metadata a deployed stack may carry
RemoteSummaries ==
    {[Metadata |-> Some([json |-> "object", entries |-> m])] :
        m \in {<<[key |-> "auth",
                  value |-> MetadataObjectValue(Some(JsonString("1")),
                                                Some(JsonArray(<<"ApiUrl">>)))]>>,
               <<[key |-> "data",
                  value |-> MetadataObjectValue(Some(JsonString("2")),
                                                Some(JsonArray(<<"ApiId", "ApiUrl">>)))],
                 [key |-> "auth",
                  value |-> MetadataObjectValue(Some(JsonString("1")),
                                                Some(JsonArray(<<"ApiUrl">>)))]>>,
               <<[key |-> "auth",
                  value |-> MetadataObjectValue(Some(JsonNumber),
                                                Some(JsonArray(<<"ApiUrl">>)))]>>}}

\* what DescribeStacks may answer for a deployed stack
RemoteStacks ==
    {[StackStatus |-> Some(<<"CREATE", "_", "COMPLETE">>), Tags |-> None,
      Outputs |-> Some(<<[OutputKey |-> Some("ApiUrl"), OutputValue |-> Some("https://x")]>>)],
     [StackStatus |-> Some(<<"CREATE", "_", "COMPLETE">>), Tags |-> None,
      Outputs |-> Some(<<[OutputKey |-> Some("ApiId"), OutputValue |-> Some("abc123")],
                         [OutputKey |-> Some("ApiUrl"), OutputValue |-> Some("https://x")]>>)],
     [StackStatus |-> Some(<<"UPDATE", "_", "IN", "_", "PROGRESS">>), Tags |-> None,
      Outputs |-> None]}

Remotes == [summary : RemoteSummaries, stack : RemoteStacks]

\* the rejection cfnClient.send may answer with instead
InterleavedErrors ==
    {Err("CloudFormationServiceException", "AccessDenied", "",
         <<"The security token included in the request is expired">>)}

\* the locals of a call that has not started
NewCall ==
    [pc |-> "start", stackName |-> None, templateSummary |-> None,
     backendOutputMetadata |-> <<>>, stackDescription |-> None,
     sendError |-> None, outcome |-> Pending]

\* the error the metadata step throws for a received summary, None if it goes through
MetadataStepThrows(summary, name) ==
    IF ThrownInTry(summary) # None
    THEN Some(ClassifyMetadataError(Get(ThrownInTry(summary)), name))
    ELSE IF Get(summary.Metadata).json = "null" THEN Some(TypeError)
    ELSE IF ~SchemaAccepts(filterBackendOutputEntryStackMetadata(
                               Get(summary.Metadata).entries))
    THEN Some(SchemaValidationError)
    ELSE None

\* const backendOutputMetadata = backendOutputStackMetadataSchema.parse(filtered)
ValidatedMetadata(summary) ==
    SchemaParse(filterBackendOutputEntryStackMetadata(Get(summary.Metadata).entries))

\* variant: backendOutputMetadata is a field of the strategy, shared by the calls
StoreMetadata_SharedField(cs, c, metadata) ==
    [x \in DOMAIN cs |-> [cs[x] EXCEPT !.backendOutputMetadata = metadata]]

\* the assignment of the local backendOutputMetadata of call c
StoreMetadata(cs, c, metadata) ==
    [cs EXCEPT ![c].backendOutputMetadata = metadata]

\* variant: the metadata is read from where the first call keeps it
LoadMetadata_FirstCall(cs, c) == cs[1].backendOutputMetadata

\* the read of the local backendOutputMetadata of call c
LoadMetadata(cs, c) == cs[c].backendOutputMetadata

InitInterleaved ==
    /\ CallVarsUnused
    /\ forms = NoHandler /\ deploy = NoHandler
    /\ remote \in Remotes
    /\ calls = [c \in Calls |-> NewCall]

\* a deployment changes the metadata, the outputs or the status of the stack
RemoteChanges ==
    /\ \E r \in Remotes : r # remote /\ remote' = r
    /\ UNCHANGED <<callVars, calls, forms, deploy>>

CallResolveMainStackNameReturns(c) ==
    /\ calls[c].pc = "start"
    /\ \E name \in StackNames :
        calls' = [calls EXCEPT ![c].pc = "getTemplateSummary", ![c].stackName = Some(name)]
    /\ UNCHANGED <<callVars, remote, forms, deploy>>

CallResolveMainStackNameFails(c) ==
    /\ calls[c].pc = "start"
    /\ \E error \in NameResolverErrors :
        calls' = [calls EXCEPT ![c].pc = "done", ![c].outcome = Rejected(error)]
    /\ UNCHANGED <<callVars, remote, forms, deploy>>

CallGetTemplateSummaryFails(c) ==
    /\ calls[c].pc = "getTemplateSummary"
    /\ \E error \in InterleavedErrors :
        calls' = [calls EXCEPT
                    ![c].pc = "done",
                    ![c].sendError = Some(error),
                    ![c].outcome = Rejected(ClassifyMetadataError(
                                                error, Get(calls[c].stackName)))]
    /\ UNCHANGED <<callVars, remote, forms, deploy>>

\* the summary of the stack as it is now arrives; the metadata step runs
CallGetTemplateSummaryReturns(c) ==
    /\ calls[c].pc = "getTemplateSummary"
    /\ LET summary == remote.summary
           thrown == MetadataStepThrows(summary, Get(calls[c].stackName))
       IN  IF thrown # None
           THEN calls' = [calls EXCEPT ![c].pc = "done",
                                       ![c].templateSummary = Some(summary),
                                       ![c].outcome = Rejected(Get(thrown))]
           ELSE calls' = StoreMetadata(
                            [calls EXCEPT ![c].pc = "describeStacks",
                                          ![c].templateSummary = Some(summary)],
                            c, ValidatedMetadata(summary))
    /\ UNCHANGED <<callVars, remote, forms, deploy>>

CallDescribeStacksFails(c) ==
    /\ calls[c].pc = "describeStacks"
    /\ \E error \in InterleavedErrors :
        calls' = [calls EXCEPT ![c].pc = "done",
                               ![c].sendError = Some(error),
                               ![c].outcome = Rejected(error)]
    /\ UNCHANGED <<callVars, remote, forms, deploy>>

\* the stack as it is now arrives; the outputs step runs
CallDescribeStacksReturns(c) ==
    /\ calls[c].pc = "describeStacks"
    /\ calls' = [calls EXCEPT
                    ![c].pc = "done",
                    ![c].stackDescription = Some(remote.stack),
                    ![c].outcome = SettleOutputs(remote.stack, LoadMetadata(calls, c))]
    /\ UNCHANGED <<callVars, remote, forms, deploy>>

NextInterleaved ==
    \/ RemoteChanges
    \/ \E c \in Calls :
        \/ CallResolveMainStackNameReturns(c)
        \/ CallResolveMainStackNameFails(c)
        \/ CallGetTemplateSummaryFails(c)
        \/ CallGetTemplateSummaryReturns(c)
        \/ CallDescribeStacksFails(c)
        \/ CallDescribeStacksReturns(c)

SpecInterleaved == InitInterleaved /\ [][NextInterleaved]_vars


----------------------------------------------------------------------------
\* what call c was answered: by the name resolver, by its metadata fetch and by
\* its outputs fetch
ResponsesOf(c) ==
    [stackName |-> calls[c].stackName,
     templateSummary |-> calls[c].templateSummary,
     stackDescription |-> calls[c].stackDescription,
     sendError |-> calls[c].sendError]

\* the outcome a finished call has when followed on its own with these answers
OutcomeOnItsOwn(r) ==
    IF r.stackName = None THEN Rejected(CHOOSE e \in NameResolverErrors : TRUE)
    ELSE IF r.templateSummary = None
    THEN Rejected(ClassifyMetadataError(Get(r.sendError), Get(r.stackName)))
    ELSE IF MetadataStepThrows(Get(r.templateSummary), Get(r.stackName)) # None
    THEN Rejected(Get(MetadataStepThrows(Get(r.templateSummary), Get(r.stackName))))
    ELSE IF r.stackDescription = None THEN Rejected(Get(r.sendError))
    ELSE SettleOutputs(Get(r.stackDescription), ValidatedMetadata(Get(r.templateSummary)))

\* C11: however the calls interleave and whenever the stack changes, the outcome
\* of a finished call is the one its own answers give, and between its two
\* fetches a call holds the metadata of its own metadata fetch.
C11_CallsAreIndependent ==
    \A c \in Calls :
        /\ calls[c].pc = "done" => calls[c].outcome = OutcomeOnItsOwn(ResponsesOf(c))
        /\ calls[c].pc = "describeStacks" =>
              calls[c].backendOutputMetadata = ValidatedMetadata(Get(calls[c].templateSummary))

\* call 1 returned groups although call 2 validated other metadata and the stack
\* is no longer the one call 1 read its metadata from
C11_Witness ==
    /\ calls[1].pc = "done" /\ calls[1].outcome.state = "fulfilled"
    /\ Len(calls[1].outcome.value) = 2
    /\ calls[2].pc \in {"describeStacks", "done"}
    /\ calls[2].templateSummary # calls[1].templateSummary
    /\ Len(calls[2].backendOutputMetadata) = 1
    /\ remote.summary # Get(calls[1].templateSummary)

\* C12: two finished calls that got the same answers (the stack did not change
\* between or during them) settled the same way: the same groups in the same
\* order with the same versions and payloads, or the same failure.
C12_RepeatedCallsAgree ==
    \A c, d \in Calls :
        (calls[c].pc = "done" /\ calls[d].pc = "done" /\ ResponsesOf(c) = ResponsesOf(d))
            => calls[c].outcome = calls[d].outcome

\* two calls returned the same two groups from the same answers
C12_Witness ==
    /\ calls[1].pc = "done" /\ calls[2].pc = "done"
    /\ ResponsesOf(1) = ResponsesOf(2)
    /\ calls[1].outcome.state = "fulfilled"
    /\ Len(calls[1].outcome.value) = 2
    /\ calls[1].outcome.value[1].key = "data"
    /\ Len(calls[1].outcome.value[1].value.payload) = 2
    /\ calls[2].outcome = calls[1].outcome


----------------------------------------------------------------------------
(* GenerateFormsCommand.handler (packages/cli, generate forms): resolve the  *)
(* backend identifier, read the backend output, find the GraphQL group and   *)
(* hand the schema location to the form generation handler.                  *)

\* AmplifyUserError(name, {message, resolution}, cause)
AmplifyUserError(name, message, cause) ==
    [class |-> "AmplifyUserError", name |-> name, code |-> "", message |-> message,
     cause |-> cause]

PlainError(message) == Err("Error", "Error", "", message)

isBackendOutputClientError(error) == error.class = "BackendOutputClientError"

graphqlOutputKey == "AWS::Amplify::GraphQL"

\* backend identifiers the resolver answers with
FormsBackendIdentifiers ==
    {[namespace |-> "app1", name |-> "main", type |-> "branch"],
     [namespace |-> "dev", name |-> "sandbox", type |-> "sandbox"]}

\* args.outDir (undefined, empty, set) and args.models
FormsArgs ==
    [outDir : {None, Some(""), Some("./ui-components")},
     models : {None, Some(<<"Todo">>)}]

\* the GraphQL group of a backend output; the schema location may be missing
GraphqlOutputs ==
    {[version |-> "1", payload |-> p] :
        p \in {<<[key |-> "amplifyApiModelSchemaS3Uri", value |-> "s3://bucket/schema.graphql"]>>,
               <<[key |-> "awsAppsyncApiId", value |-> "abc123"]>>}}

AuthOutput ==
    [version |-> "1", payload |-> <<[key |-> "userPoolId", value |-> "pool1"]>>]

\* what getOutput resolves with: the value of a key is None when it is
\* present but undefined
FormsOutputs ==
    {<<>>,
     <<[key |-> "AWS::Amplify::Auth", value |-> Some(AuthOutput)]>>,
     <<[key |-> graphqlOutputKey, value |-> None]>>}
    \cup {<<[key |-> graphqlOutputKey, value |-> Some(g)]>> : g \in GraphqlOutputs}
    \cup {<<[key |-> "AWS::Amplify::Auth", value |-> Some(AuthOutput)],
           [key |-> graphqlOutputKey, value |-> Some(g)]>> : g \in GraphqlOutputs}

\* the codes of BackendOutputClientErrorType
BackendOutputClientErrorTypes ==
    {"DEPLOYMENT_IN_PROGRESS", "NO_STACK_FOUND", "NO_OUTPUTS_FOUND", "CREDENTIALS_ERROR",
     "ACCESS_DENIED", "METADATA_RETRIEVAL_ERROR"}

\* what getOutput rejects with: an error of the client's taxonomy, or an error
\* the client let through
GetOutputErrors ==
    {BackendOutputClientError(code, <<"backend output client error">>) :
        code \in BackendOutputClientErrorTypes}
    \cup {SchemaValidationError, SyntaxError,
          Err("CloudFormationServiceException", "Throttling", "", <<"Rate exceeded">>)}

FormsCollaboratorErrors == {PlainError(<<"collaborator failed">>)}

\* the catch block of the getOutput call: the error the handler throws
MapGetOutputError(error) ==
    IF isBackendOutputClientError(error)
    THEN CASE error.code = "DEPLOYMENT_IN_PROGRESS" ->
                  AmplifyUserError("DeploymentInProgressError",
                                   <<"Deployment is currently in progress.">>, Some(error))
           [] error.code = "NO_STACK_FOUND" ->
                  AmplifyUserError("StackDoesNotExistError",
                                   <<"Stack does not exist.">>, Some(error))
           [] error.code = "NO_OUTPUTS_FOUND" ->
                  AmplifyUserError("AmplifyOutputsNotFoundError",
                                   <<"Amplify outputs not found in stack metadata">>, Some(error))
           [] error.code = "CREDENTIALS_ERROR" ->
                  AmplifyUserError("CredentialsError",
                                   <<"Unable to get backend outputs due to invalid credentials.">>,
                                   Some(error))
           [] error.code = "ACCESS_DENIED" ->
                  AmplifyUserError("AccessDeniedError",
                                   <<"Unable to get backend outputs due to insufficient permissions.">>,
                                   Some(error))
           [] OTHER -> error
    ELSE error

\* !(graphqlOutputKey in output) || !output[graphqlOutputKey]
NoGraphqlApi(output) ==
    \/ ~HasKey(output, graphqlOutputKey)
    \/ Get(ObjGet(output, graphqlOutputKey)) = None

\* output[graphqlOutputKey].payload.amplifyApiModelSchemaS3Uri (None if undefined)
ApiUrlOf(output) ==
    ObjGet(Get(Get(ObjGet(output, graphqlOutputKey))).payload, "amplifyApiModelSchemaS3Uri")

\* !args.outDir: undefined or the empty string
OutDirMissing(args) == args.outDir = None \/ args.outDir = Some("")

\* the argument of formGenerationHandler.generate; a path is its segments
GenerateArgs(args, backendIdentifier, output) ==
    [modelsOutDir |-> <<Get(args.outDir), "graphql">>,
     backendIdentifier |-> backendIdentifier,
     uiOutDir |-> <<Get(args.outDir)>>,
     apiUrl |-> ApiUrlOf(output),
     modelsFilter |-> args.models]

\* the synchronous code after getOutput resolved, up to the generate call
AfterGetOutput(f, output) ==
    IF NoGraphqlApi(output)
    THEN [f EXCEPT !.pc = "done", !.output = Some(output),
                   !.outcome = Rejected(PlainError(<<"No GraphQL API configured for this backend.">>))]
    ELSE IF OutDirMissing(f.args)
    THEN [f EXCEPT !.pc = "done", !.output = Some(output),
                   !.outcome = Rejected(PlainError(<<"out-dir must be defined">>))]
    ELSE [f EXCEPT !.pc = "generate", !.output = Some(output),
                   !.generateCalls = Append(@, GenerateArgs(f.args, Get(f.backendIdentifier), output))]

InitForms ==
    /\ CallVarsUnused
    /\ remote = NoRemote
    /\ calls = <<>>
    /\ deploy = NoHandler
    /\ \E args \in FormsArgs :
          forms = [pc |-> "start", args |-> args, backendIdentifier |-> None,
                   getOutputCalls |-> <<>>, output |-> None, getOutputError |-> None,
                   generateCalls |-> <<>>, outcome |-> Pending]

\* resolveDeployedBackendIdentifier resolves (with an identifier or undefined)
FormsResolveIdentifierReturns ==
    /\ forms.pc = "start"
    /\ \E backendIdentifier \in {None} \cup {Some(b) : b \in FormsBackendIdentifiers} :
          forms' = IF backendIdentifier = None
                   THEN [forms EXCEPT !.pc = "done",
                            !.outcome = Rejected(AmplifyUserError("BackendIdentifierResolverError",
                                <<"Could not resolve the backend identifier.">>, None))]
                   ELSE [forms EXCEPT !.pc = "getOutput",
                            !.backendIdentifier = backendIdentifier,
                            !.getOutputCalls = Append(@, Get(backendIdentifier))]
    /\ UNCHANGED <<callVars, remote, calls, deploy>>

\* resolveDeployedBackendIdentifier rejects
FormsResolveIdentifierFails ==
    /\ forms.pc = "start"
    /\ \E error \in FormsCollaboratorErrors :
          forms' = [forms EXCEPT !.pc = "done", !.outcome = Rejected(error)]
    /\ UNCHANGED <<callVars, remote, calls, deploy>>

\* getOutput rejects: the catch block
FormsGetOutputFails ==
    /\ forms.pc = "getOutput"
    /\ \E error \in GetOutputErrors :
          forms' = [forms EXCEPT !.pc = "done", !.getOutputError = Some(error),
                                 !.outcome = Rejected(MapGetOutputError(error))]
    /\ UNCHANGED <<callVars, remote, calls, deploy>>

\* getOutput resolves: the two checks, then the generate call
FormsGetOutputReturns ==
    /\ forms.pc = "getOutput"
    /\ \E output \in FormsOutputs : forms' = AfterGetOutput(forms, output)
    /\ UNCHANGED <<callVars, remote, calls, deploy>>

FormsGenerateReturns ==
    /\ forms.pc = "generate"
    /\ forms' = [forms EXCEPT !.pc = "done", !.outcome = Fulfilled(<<>>)]
    /\ UNCHANGED <<callVars, remote, calls, deploy>>

FormsGenerateFails ==
    /\ forms.pc = "generate"
    /\ \E error \in FormsCollaboratorErrors :
          forms' = [forms EXCEPT !.pc = "done", !.outcome = Rejected(error)]
    /\ UNCHANGED <<callVars, remote, calls, deploy>>

NextForms ==
    \/ FormsResolveIdentifierReturns
    \/ FormsResolveIdentifierFails
    \/ FormsGetOutputFails
    \/ FormsGetOutputReturns
    \/ FormsGenerateReturns
    \/ FormsGenerateFails

SpecForms == InitForms /\ [][NextForms]_vars


----------------------------------------------------------------------------
FormsDone == forms.pc = "done"
FormsThrown == Get(forms.outcome.error)

\* the handler threw an AmplifyUserError that wraps the given error
ThrewUserErrorWrapping(error) ==
    /\ forms.outcome.state = "rejected"
    /\ FormsThrown.class = "AmplifyUserError"
    /\ FormsThrown.cause = Some(error)

\* generate is called at most once, and only with an identifier, an output
\* that has the GraphQL group and an out-dir
GenerateOnlyOnSuccessPath ==
    /\ Len(forms.generateCalls) <= 1
    /\ forms.generateCalls # <<>> =>
          /\ forms.backendIdentifier # None
          /\ forms.getOutputError = None
          /\ forms.output # None
          /\ ~NoGraphqlApi(Get(forms.output))
          /\ ~OutDirMissing(forms.args)
          /\ forms.generateCalls[1].backendIdentifier = Get(forms.backendIdentifier)
    /\ (forms.outcome.state = "rejected" /\ forms.generateCalls # <<>>) =>
          FormsThrown \in FormsCollaboratorErrors

\* C13: every error of the client's taxonomy that getOutput rejects with leaves
\* the handler as an AmplifyUserError of its own message with the original error
\* as cause, never as the raw client error; generate is called at most once and
\* only after the identifier was resolved, getOutput succeeded, the output has
\* the GraphQL group and out-dir is defined, and on no failure path.
C13_EveryKindMappedGenerateGuarded ==
    /\ (FormsDone /\ forms.getOutputError # None
          /\ isBackendOutputClientError(Get(forms.getOutputError)))
        => ThrewUserErrorWrapping(Get(forms.getOutputError))
    /\ \A e1, e2 \in GetOutputErrors :
          (isBackendOutputClientError(e1) /\ isBackendOutputClientError(e2) /\ e1 # e2)
              => MapGetOutputError(e1).message # MapGetOutputError(e2).message
    /\ GenerateOnlyOnSuccessPath

\* getOutput rejected with the client's METADATA_RETRIEVAL_ERROR and the handler
\* threw that very error
C13_RawClientErrorEscapes ==
    /\ FormsDone
    /\ forms.getOutputError # None
    /\ Get(forms.getOutputError).code = "METADATA_RETRIEVAL_ERROR"
    /\ forms.outcome = Rejected(Get(forms.getOutputError))


----------------------------------------------------------------------------
(* PipelineDeployCommand.handler (pipeline-deploy): refuse to run outside a  *)
(* CI environment, deploy the branch backend, then write the client config.  *)

\* args of the command
PipelineArgs ==
    [appId : {"app1", "app2"},
     branch : {"main", "feature"},
     outputsVersion : {"1", "1.1"},
     outputsOutDir : {None, Some("./src")},
     outputsFormat : {None, Some("json"), Some("dart")}]

PipelineCollaboratorErrors == {PlainError(<<"collaborator failed">>)}

RunningPipelineDeployNotInCiError ==
    AmplifyUserError("RunningPipelineDeployNotInCiError",
        <<"It looks like this command is being run outside of a CI/CD workflow.">>, None)

\* const backendId = { namespace: args.appId, name: args.branch, type: 'branch' }
BranchBackendId(args) ==
    [namespace |-> args.appId, name |-> args.branch, type |-> "branch"]

DeployCall(args) ==
    [backendId |-> BranchBackendId(args), validateAppSources |-> TRUE]

GenerateClientConfigCall(args) ==
    [backendId |-> BranchBackendId(args), version |-> args.outputsVersion,
     outDir |-> args.outputsOutDir, format |-> args.outputsFormat]

InitPipeline ==
    /\ CallVarsUnused
    /\ remote = NoRemote
    /\ calls = <<>>
    /\ forms = NoHandler
    /\ \E isCiEnvironment \in BOOLEAN, args \in PipelineArgs :
          deploy = [pc |-> "start", isCiEnvironment |-> isCiEnvironment, args |-> args,
                    deployCalls |-> <<>>, deploySettled |-> "none",
                    generateCalls |-> <<>>, outcome |-> Pending]

\* a start that calls deploy whatever the environment is
PipelineHandlerStarts_SkipsCiCheck ==
    /\ deploy.pc = "start"
    /\ deploy' = [deploy EXCEPT !.pc = "deploy", !.deploySettled = "pending",
                                !.deployCalls = Append(@, DeployCall(deploy.args))]
    /\ UNCHANGED <<callVars, remote, calls, forms>>

\* the CI check, then the deploy call
PipelineHandlerStarts ==
    /\ deploy.pc = "start"
    /\ deploy' = IF ~deploy.isCiEnvironment
                 THEN [deploy EXCEPT !.pc = "done",
                                     !.outcome = Rejected(RunningPipelineDeployNotInCiError)]
                 ELSE [deploy EXCEPT !.pc = "deploy", !.deploySettled = "pending",
                                     !.deployCalls = Append(@, DeployCall(deploy.args))]
    /\ UNCHANGED <<callVars, remote, calls, forms>>

\* backendDeployer.deploy resolves: the client config call
PipelineDeployReturns ==
    /\ deploy.pc = "deploy"
    /\ deploy' = [deploy EXCEPT !.pc = "generate", !.deploySettled = "resolved",
                     !.generateCalls = Append(@, GenerateClientConfigCall(deploy.args))]
    /\ UNCHANGED <<callVars, remote, calls, forms>>

\* backendDeployer.deploy rejects
PipelineDeployFails ==
    /\ deploy.pc = "deploy"
    /\ \E error \in PipelineCollaboratorErrors :
          deploy' = [deploy EXCEPT !.pc = "done", !.deploySettled = "rejected",
                                   !.outcome = Rejected(error)]
    /\ UNCHANGED <<callVars, remote, calls, forms>>

PipelineGenerateClientConfigReturns ==
    /\ deploy.pc = "generate"
    /\ deploy' = [deploy EXCEPT !.pc = "done", !.outcome = Fulfilled(<<>>)]
    /\ UNCHANGED <<callVars, remote, calls, forms>>

PipelineGenerateClientConfigFails ==
    /\ deploy.pc = "generate"
    /\ \E error \in PipelineCollaboratorErrors :
          deploy' = [deploy EXCEPT !.pc = "done", !.outcome = Rejected(error)]
    /\ UNCHANGED <<callVars, remote, calls, forms>>

NextPipeline ==
    \/ PipelineHandlerStarts
    \/ PipelineDeployReturns
    \/ PipelineDeployFails
    \/ PipelineGenerateClientConfigReturns
    \/ PipelineGenerateClientConfigFails

SpecPipeline == InitPipeline /\ [][NextPipeline]_vars

\* C14: outside CI the handler fails with RunningPipelineDeployNotInCiError and
\* calls neither deploy nor generateClientConfigToFile; in CI it calls deploy
\* exactly once, for the branch backend built from app-id and branch, and it
\* generates the client config only after deploy succeeded, never after deploy
\* failed.
C14_CiGateThenDeployThenGenerate ==
    /\ ~deploy.isCiEnvironment =>
          /\ deploy.deployCalls = <<>> /\ deploy.generateCalls = <<>>
          /\ deploy.pc = "done" => deploy.outcome = Rejected(RunningPipelineDeployNotInCiError)
    /\ (deploy.isCiEnvironment /\ deploy.pc # "start") =>
          deploy.deployCalls = <<[backendId |-> [namespace |-> deploy.args.appId,
                                                 name |-> deploy.args.branch,
                                                 type |-> "branch"],
                                  validateAppSources |-> TRUE]>>
    /\ Len(deploy.deployCalls) <= 1
    /\ Len(deploy.generateCalls) <= 1
    /\ deploy.generateCalls # <<>> =>
          /\ deploy.deploySettled = "resolved"
          /\ deploy.generateCalls[1].backendId = deploy.deployCalls[1].backendId
    /\ deploy.deploySettled = "rejected" =>
          /\ deploy.generateCalls = <<>>
          /\ deploy.pc = "done" /\ deploy.outcome.state = "rejected"

\* in CI the handler finished after one deploy and one client config generation
C14_Witness ==
    /\ deploy.isCiEnvironment
    /\ deploy.pc = "done" /\ deploy.outcome.state = "fulfilled"
    /\ Len(deploy.deployCalls) = 1 /\ Len(deploy.generateCalls) = 1
    /\ deploy.deployCalls[1].backendId.namespace = "app2"
    /\ deploy.deployCalls[1].backendId.name = "feature"

\* outside CI the handler was refused
C14_WitnessNotCi ==
    /\ ~deploy.isCiEnvironment
    /\ deploy.pc = "done"
    /\ Get(deploy.outcome.error).name = "RunningPipelineDeployNotInCiError"


====
